---- MODULE Spec2Model ----
(***************************************************************************)
(* SunSpec core of mbmd (internal/meters/sunspec.go): the common block     *)
(* decoder, the single-value read-operation builders, and the block        *)
(* read-operation builders with their splitters.                           *)
(*                                                                         *)
(* A caller builds an Operation, the transport returns the bytes of the    *)
(* registers the Operation names, and the caller applies the Operation's   *)
(* Transform or Splitter (or DecodeSunSpecCommonBlock) to those bytes.     *)
(*                                                                         *)
(* Byte slices are Go slices: a length and a backing array (its length is  *)
(* the capacity).  Indexing and b[lo:] are checked against the length,     *)
(* b[lo:hi] against the capacity; a failed check is a run-time panic.      *)
(*                                                                         *)
(* float64 values are kept exact as m * 10^e, together with +-Inf and NaN; *)
(* the rounding of float64 is not modelled, its range in math.Pow10 is.    *)
(***************************************************************************)
EXTENDS Integers, Sequences, FiniteSets, TLC

VARIABLES
    MeasurementMapping, \* p.MeasurementMapping: Measurement -> register offset
    pc,                 \* "idle", "built", "read", "done"
    builder,            \* the builder the caller called, "" when none
    op,                 \* the Operation the caller built
    b,                  \* the byte slice handed to the decoder
    out                 \* what the decoder returned

vars == <<MeasurementMapping, pc, builder, op, b, out>>

----------------------------------------------------------------------------
(* Bounds of the model *)

\* the register offsets of a device's map are 10 .. MaxOffset
MaxOffset == 12

\* the longest argument list handed to a block builder
MaxIecs == 2

Measurements == {"Power", "Export"}

Offsets == 10 .. MaxOffset

\* non-empty argument lists, in every order, duplicates included
IecLists == UNION {[1 .. n -> Measurements] : n \in 1 .. MaxIecs}

\* register values the device reports for a measurement register
DataVals == {0, 2, 32768, 65535}

\* register values the device reports for a scale factor register:
\* 0, 2, 32767, -32768 and -1 as int16
ExpVals == {0, 2, 32767, 32768, 65535}

----------------------------------------------------------------------------
(* Protocol constants *)

sunspecBase == 40000

sunspecID == 1

sunspecManufacturer == 5

sunspecModel == 21

sunspecVersion == 45

sunspecSerial == 53

\* 0x53756e53, "SunS"
sunsSignature == 1400204883

ReadHoldingReg == 3

\* the Measurement that marks a block operation
Split == "Split"

U16(x) == x % 65536

----------------------------------------------------------------------------
(* float64 *)

\* m * 10^e, the mantissa without trailing zeros
RECURSIVE F(_, _)
F(m, e) == IF m = 0 THEN [k |-> "num", m |-> 0, e |-> 0]
           ELSE IF m % 10 = 0 THEN F(m \div 10, e + 1)
           ELSE [k |-> "num", m |-> m, e |-> e]

NaN == [k |-> "nan", m |-> 0, e |-> 0]

Inf(sign) == [k |-> "inf", m |-> sign, e |-> 0]

IsNaN(x) == x.k = "nan"

Sign(m) == IF m < 0 THEN -1 ELSE 1

\* x * y
FMul(x, y) ==
    IF x.k = "nan" \/ y.k = "nan" THEN NaN
    ELSE IF x.k = "inf" /\ y.k = "inf" THEN Inf(x.m * y.m)
    ELSE IF x.k = "inf" THEN (IF y.m = 0 THEN NaN ELSE Inf(x.m * Sign(y.m)))
    ELSE IF y.k = "inf" THEN (IF x.m = 0 THEN NaN ELSE Inf(y.m * Sign(x.m)))
    ELSE F(x.m * y.m, x.e + y.e)

\* x / y for a finite x and a y that is a power of ten (y.m = 1)
FDiv(x, y) == IF x.k = "nan" THEN NaN ELSE F(x.m, x.e - y.e)

\* math.Pow10: 0 below 1e-323, +Inf above 1e308
Pow10(n) == IF n < -323 THEN F(0, 0)
            ELSE IF n > 308 THEN Inf(1)
            ELSE F(1, n)

----------------------------------------------------------------------------
(* Byte slices *)

Slice(arr, n) == [len |-> n, arr |-> arr]

Cap(s) == Len(s.arr)

\* s[lo:], defined when lo <= len(s)
From(s, lo) == [len |-> s.len - lo, arr |-> SubSeq(s.arr, lo + 1, Len(s.arr))]

\* binary.BigEndian.Uint16, defined when len(s) >= 2
BigEndianUint16(s) == s.arr[1] * 256 + s.arr[2]

\* binary.BigEndian.Uint32, defined when len(s) >= 4
BigEndianUint32(s) ==
    ((s.arr[1] * 256 + s.arr[2]) * 256 + s.arr[3]) * 256 + s.arr[4]

\* int16(u)
Int16(u) == IF u >= 32768 THEN u - 65536 ELSE u

\* the two bytes of a register, big endian
RegBytes(v) == <<v \div 256, v % 256>>

RECURSIVE Flatten(_)
Flatten(regs) ==
    IF regs = <<>> THEN <<>> ELSE RegBytes(Head(regs)) \o Flatten(Tail(regs))

----------------------------------------------------------------------------
(* Value decoders.  A func([]byte) float64 is kept as the name of the plain *)
(* decoder and, for a decoder made by a MakeRTUScaled... constructor, its    *)
(* scaler.                                                                   *)

One == F(1, 0)

NilFunc == [fn |-> "nil", scaled |-> FALSE, scaler |-> One]

PlainFunc(name) == [fn |-> name, scaled |-> FALSE, scaler |-> One]

ScaledFunc(name, scaler) == [fn |-> name, scaled |-> TRUE, scaler |-> scaler]

\* variant: 0xFFFF read as 65535
RTUUint16ToFloat64WithNaNPlain(s) == F(BigEndianUint16(s), 0)

RTUUint16ToFloat64WithNaN(s) ==
    LET u == BigEndianUint16(s)
    IN  IF u = 65535 THEN NaN ELSE F(u, 0)

RTUUint16ToFloat64(s) == F(BigEndianUint16(s), 0)

RTUInt16ToFloat64(s) == F(Int16(BigEndianUint16(s)), 0)

RTUUint32ToFloat64(s) == F(BigEndianUint32(s), 0)

\* the scaled decoders divide the plain reading by the scaler
\* ("use div 1000 for kWh conversion")
MakeRTUScaledUint16ToFloat64(scaler) == ScaledFunc("RTUUint16ToFloat64", scaler)

MakeRTUScaledInt16ToFloat64(scaler) == ScaledFunc("RTUInt16ToFloat64", scaler)

MakeRTUScaledUint32ToFloat64(scaler) == ScaledFunc("RTUUint32ToFloat64", scaler)

\* the bytes a decoder indexes
Width(f) == IF f.fn = "RTUUint32ToFloat64" THEN 4 ELSE 2

\* the plain reading of decoder f on s, defined when len(s) >= Width(f)
Plain(f, s) ==
    CASE f.fn = "RTUUint16ToFloat64WithNaN" -> RTUUint16ToFloat64WithNaN(s)
      [] f.fn = "RTUUint16ToFloat64"        -> RTUUint16ToFloat64(s)
      [] f.fn = "RTUInt16ToFloat64"         -> RTUInt16ToFloat64(s)
      [] f.fn = "RTUUint32ToFloat64"        -> RTUUint32ToFloat64(s)

\* f(s)
Call(f, s) == IF f.scaled THEN FDiv(Plain(f, s), f.scaler) ELSE Plain(f, s)

----------------------------------------------------------------------------
(* Operations *)

Opcode(iec) == MeasurementMapping[iec]

NilSplitter ==
    [fn |-> "nil", dataSize |-> 0, valFunc |-> NilFunc, iecs |-> <<>>, min |-> 0]

\* the zero Operation
NoOp ==
    [FuncCode |-> 0, OpCode |-> 0, ReadLen |-> 0, IEC61850 |-> "",
     Transform |-> NilFunc, Splitter |-> NilSplitter]

GetSunSpecCommonBlock ==
    [NoOp EXCEPT !.FuncCode = ReadHoldingReg,
                 !.OpCode = sunspecBase,
                 !.ReadLen = sunspecSerial]

snip(iec, readlen) ==
    [NoOp EXCEPT !.FuncCode = ReadHoldingReg,
                 !.OpCode = U16(sunspecBase + Opcode(iec) - 1),
                 !.ReadLen = readlen,
                 !.IEC61850 = iec]

\* scaler is the variadic argument: <<>> or <<k>>
snip16uint(iec, scaler) ==
    [snip(iec, 1) EXCEPT !.Transform =
        IF Len(scaler) > 0 THEN MakeRTUScaledUint16ToFloat64(scaler[1])
                           ELSE PlainFunc("RTUUint16ToFloat64")]

\* variant: the Transform left unset
snip16intNoTransform(iec, scaler) == snip(iec, 1)

snip16int(iec, scaler) ==
    [snip(iec, 1) EXCEPT !.Transform =
        IF Len(scaler) > 0 THEN MakeRTUScaledInt16ToFloat64(scaler[1])
                           ELSE PlainFunc("RTUInt16ToFloat64")]

snip32(iec, scaler) ==
    [snip(iec, 2) EXCEPT !.Transform =
        IF Len(scaler) > 0 THEN MakeRTUScaledUint32ToFloat64(scaler[1])
                           ELSE PlainFunc("RTUUint32ToFloat64")]

\* the loop of minMax over iecs[1..n], from min = 0xFFFF and max = 0
RECURSIVE minMaxLoop(_, _)
minMaxLoop(iecs, n) ==
    IF n = 0 THEN <<65535, 0>>
    ELSE LET mm == minMaxLoop(iecs, n - 1)
             o  == Opcode(iecs[n])
         IN  <<IF o < mm[1] THEN o ELSE mm[1], IF o > mm[2] THEN o ELSE mm[2]>>

\* variant: the arguments taken as sorted
minMaxFirstLast(iecs) == <<Opcode(iecs[1]), Opcode(iecs[Len(iecs)])>>

minMax(iecs) == minMaxLoop(iecs, Len(iecs))

mkBlockSplitter(dataSize, valFunc, iecs) ==
    [fn |-> "split", dataSize |-> dataSize, valFunc |-> valFunc,
     iecs |-> iecs, min |-> minMax(iecs)[1]]

mkSplitInt16(iecs) == mkBlockSplitter(2, PlainFunc("RTUInt16ToFloat64"), iecs)

mkSplitUint16(iecs) ==
    mkBlockSplitter(2, PlainFunc("RTUUint16ToFloat64WithNaN"), iecs)

\* variant: the plain 32-bit decoder
mkSplitUint32Unscaled(iecs) ==
    mkBlockSplitter(4, PlainFunc("RTUUint32ToFloat64"), iecs)

mkSplitUint32(iecs) ==
    mkBlockSplitter(4, MakeRTUScaledUint32ToFloat64(F(1000, 0)), iecs)

\* splitter(iecs...) for the splitter factory named
MkSplitter(splitter, iecs) ==
    CASE splitter = "mkSplitInt16"  -> mkSplitInt16(iecs)
      [] splitter = "mkSplitUint16" -> mkSplitUint16(iecs)
      [] splitter = "mkSplitUint32" -> mkSplitUint32(iecs)

\* variant: the scale factor register not read
scaleSnip16NoScaleRegister(splitter, iecs) ==
    LET mm == minMax(iecs)
    IN  [NoOp EXCEPT !.FuncCode = ReadHoldingReg,
                     !.OpCode = U16(sunspecBase + mm[1] - 1),
                     !.ReadLen = U16(mm[2] - mm[1] + 1),
                     !.IEC61850 = Split,
                     !.Splitter = MkSplitter(splitter, iecs)]

scaleSnip16(splitter, iecs) ==
    LET mm == minMax(iecs)
    IN  [NoOp EXCEPT !.FuncCode = ReadHoldingReg,
                     !.OpCode = U16(sunspecBase + mm[1] - 1),
                     !.ReadLen = U16(mm[2] - mm[1] + 2),
                     !.IEC61850 = Split,
                     !.Splitter = MkSplitter(splitter, iecs)]

scaleSnip32(splitter, iecs) ==
    LET o == scaleSnip16(splitter, iecs)
    IN  [o EXCEPT !.ReadLen = U16((o.ReadLen - 1) * 2 + 1)]

----------------------------------------------------------------------------
(* Decoding *)

NoDescriptor == [Manufacturer |-> <<>>, Model |-> <<>>, Version |-> <<>>, Serial |-> <<>>]

\* what a decoder returned; kind is "none", "value", "split", "descr",
\* "error" (an error was returned) or "panic" (a run-time fault)
NoOut ==
    [kind |-> "none", err |-> "", value |-> NaN, res |-> <<>>, descr |-> NoDescriptor]

Panic == [NoOut EXCEPT !.kind = "panic"]

\* variant: the exponent read unsigned
splitExpUnsigned(s) == BigEndianUint16(From(s, s.len - 2))

\* last int16 of the block, defined when len(s) >= 2
splitExp(s) == Int16(BigEndianUint16(From(s, s.len - 2)))

\* the byte index of a measurement's reading in the block
splitIndex(sp, opcode) == U16(sp.dataSize * U16(opcode - sp.min))

\* the loop of the splitter over iecs[1..n]: the results so far, and whether
\* a slice or an index was out of range
RECURSIVE splitLoop(_, _, _, _)
splitLoop(sp, s, scaler, n) ==
    IF n = 0 THEN [panic |-> FALSE, res |-> <<>>]
    ELSE LET prev   == splitLoop(sp, s, scaler, n - 1)
             iec    == sp.iecs[n]
             opcode == Opcode(iec)
             idx    == splitIndex(sp, opcode)
         IN  IF prev.panic THEN prev
             ELSE IF idx > s.len \/ s.len - idx < Width(sp.valFunc)
                  THEN [panic |-> TRUE, res |-> <<>>]
             ELSE LET val == Call(sp.valFunc, From(s, idx))
                  IN  IF IsNaN(val) THEN prev
                      ELSE [prev EXCEPT !.res = Append(@,
                               [OpCode   |-> U16(sunspecBase + opcode - 1),
                                IEC61850 |-> iec,
                                Value    |-> FMul(scaler, val)])]

\* the closure mkBlockSplitter returns, applied to s
Splitter(sp, s) ==
    IF s.len < 2 THEN Panic
    ELSE LET r == splitLoop(sp, s, Pow10(splitExp(s)), Len(sp.iecs))
         IN  IF r.panic THEN Panic
             ELSE [NoOut EXCEPT !.kind = "split", !.res = r.res]

\* op.Transform(s)
Transform(f, s) ==
    IF s.len < Width(f) THEN Panic
    ELSE [NoOut EXCEPT !.kind = "value", !.value = Call(f, s)]

\* strings.TrimRight(s, " \x00")
RECURSIVE TrimRight(_)
TrimRight(str) ==
    IF str # <<>> /\ str[Len(str)] \in {32, 0}
    THEN TrimRight(SubSeq(str, 1, Len(str) - 1))
    ELSE str

\* whether b[start:end-1] of stringDecode is in range
stringDecodeOk(s, reg, len) == 2 * (reg + len - 1) - 1 <= Cap(s)

stringDecode(s, reg, len) ==
    LET start == 2 * (reg - 1)
        end   == 2 * (reg + len - 1)
    IN  TrimRight(SubSeq(s.arr, start + 1, end - 1))

DecodeSunSpecCommonBlock(s) ==
    IF s.len < sunspecSerial + 2 * 16
    THEN [NoOut EXCEPT !.kind = "error",
                       !.err = "Could not read SunSpec device descriptor"]
    ELSE IF BigEndianUint32(From(s, sunspecID - 1)) # sunsSignature
    THEN [NoOut EXCEPT !.kind = "error",
                       !.err = "Invalid SunSpec device signature"]
    ELSE IF ~ (/\ stringDecodeOk(s, sunspecManufacturer, 16)
               /\ stringDecodeOk(s, sunspecModel, 16)
               /\ stringDecodeOk(s, sunspecVersion, 8)
               /\ stringDecodeOk(s, sunspecSerial, 16))
    THEN Panic
    ELSE [NoOut EXCEPT !.kind = "descr", !.descr =
            [Manufacturer |-> stringDecode(s, sunspecManufacturer, 16),
             Model        |-> stringDecode(s, sunspecModel, 16),
             Version      |-> stringDecode(s, sunspecVersion, 8),
             Serial       |-> stringDecode(s, sunspecSerial, 16)]]

----------------------------------------------------------------------------
(* Inputs *)

\* the optional scaler of the single-value builders: none, 10 or 1000
ScalerArgs == {<<>>, <<F(10, 0)>>, <<F(1000, 0)>>}

\* "SunS", "Suns", and four null bytes
SigVals == {<<83, 117, 110, 83>>, <<83, 117, 110, 115>>, <<0, 0, 0, 0>>}

\* a string field: "SE" padded with spaces, "SE " padded with nulls, or
\* filled with 'X' to its last byte
FieldPatterns ==
    {[text |-> <<83, 69>>, pad |-> 32],
     [text |-> <<83, 69, 32>>, pad |-> 0],
     [text |-> <<>>, pad |-> 88]}

FieldNames == {"Manufacturer", "Model", "Version", "Serial"}

\* the n bytes of a field written with pattern p
FieldBytes(p, n) == [i \in 1 .. n |-> IF i <= Len(p.text) THEN p.text[i] ELSE p.pad]

\* the 68 registers of a common block: SunS, ID and length, manufacturer,
\* model, options, version, serial
CommonImage(sig, f) ==
    sig \o <<0, 1, 0, 65>>
        \o FieldBytes(f["Manufacturer"], 32)
        \o FieldBytes(f["Model"], 32)
        \o [i \in 1 .. 16 |-> 0]
        \o FieldBytes(f["Version"], 16)
        \o FieldBytes(f["Serial"], 32)

BufLens == {0, 84, 85, 106, 136}

BufCaps == {85, 102, 103, 106, 134, 135, 136}

\* the slices of length n over the common block images: the backing array
\* holds the image up to the slice's capacity
CommonSlices(n) ==
    {Slice(SubSeq(CommonImage(sig, f), 1, c), n) :
        sig \in SigVals, f \in [FieldNames -> FieldPatterns],
        c \in {n} \cup {x \in BufCaps : x >= n}}

\* the register values the device may report for the registers of o: the
\* readings, and for a block the scale factor last.  32-bit readings are
\* kept below 2^31.
RegisterImages(o) ==
    LET wide == Width(IF o.Splitter.fn = "nil" THEN o.Transform
                                               ELSE o.Splitter.valFunc) = 4
        data == IF wide THEN {v \in DataVals : v < 32768} ELSE DataVals
    IN  IF o.Splitter.fn = "nil"
        THEN [1 .. o.ReadLen -> data]
        ELSE {Append(d, e) : d \in [1 .. o.ReadLen - 1 -> data], e \in ExpVals}

----------------------------------------------------------------------------
(* The caller, and the transport *)

TypeOK ==
    /\ MeasurementMapping \in [Measurements -> Offsets]
    /\ pc \in {"idle", "built", "read", "done"}
    /\ out.kind \in {"none", "value", "split", "descr", "error", "panic"}

Init ==
    /\ MeasurementMapping \in [Measurements -> Offsets]
    /\ pc = "idle"
    /\ builder = ""
    /\ op = NoOp
    /\ b = Slice(<<>>, 0)
    /\ out = NoOut

Built(name, o) ==
    /\ pc = "idle"
    /\ pc' = "built"
    /\ builder' = name
    /\ op' = o
    /\ UNCHANGED <<MeasurementMapping, b, out>>

CallGetSunSpecCommonBlock == Built("GetSunSpecCommonBlock", GetSunSpecCommonBlock)

CallSnip16uint ==
    \E iec \in Measurements, scaler \in ScalerArgs : Built("snip16uint", snip16uint(iec, scaler))

CallSnip16int ==
    \E iec \in Measurements, scaler \in ScalerArgs : Built("snip16int", snip16int(iec, scaler))

CallSnip32 ==
    \E iec \in Measurements, scaler \in ScalerArgs : Built("snip32", snip32(iec, scaler))

CallScaleSnip16 ==
    \E splitter \in {"mkSplitInt16", "mkSplitUint16"}, iecs \in IecLists :
        Built("scaleSnip16", scaleSnip16(splitter, iecs))

CallScaleSnip32 ==
    \E iecs \in IecLists : Built("scaleSnip32", scaleSnip32("mkSplitUint32", iecs))

\* the transport executes the operation and returns the 2*ReadLen bytes of
\* the registers read
TransportRead ==
    /\ pc = "built"
    /\ pc' = "read"
    /\ IF builder = "GetSunSpecCommonBlock"
       THEN b' \in CommonSlices(2 * op.ReadLen)
       ELSE \E regs \in RegisterImages(op) : b' = Slice(Flatten(regs), 2 * op.ReadLen)
    /\ UNCHANGED <<MeasurementMapping, builder, op, out>>

\* a caller hands DecodeSunSpecCommonBlock a buffer of its own
SupplyBuffer ==
    /\ pc = "idle"
    /\ pc' = "read"
    /\ \E n \in BufLens : b' \in CommonSlices(n)
    /\ UNCHANGED <<MeasurementMapping, builder, op, out>>

CallTransform ==
    /\ pc = "read"
    /\ op.Transform.fn # "nil"
    /\ pc' = "done"
    /\ out' = Transform(op.Transform, b)
    /\ UNCHANGED <<MeasurementMapping, builder, op, b>>

CallSplitter ==
    /\ pc = "read"
    /\ op.Splitter.fn # "nil"
    /\ pc' = "done"
    /\ out' = Splitter(op.Splitter, b)
    /\ UNCHANGED <<MeasurementMapping, builder, op, b>>

CallDecodeSunSpecCommonBlock ==
    /\ pc = "read"
    /\ op.Transform.fn = "nil"
    /\ op.Splitter.fn = "nil"
    /\ pc' = "done"
    /\ out' = DecodeSunSpecCommonBlock(b)
    /\ UNCHANGED <<MeasurementMapping, builder, op, b>>

Next ==
    \/ CallGetSunSpecCommonBlock
    \/ CallSnip16uint
    \/ CallSnip16int
    \/ CallSnip32
    \/ CallScaleSnip16
    \/ CallScaleSnip32
    \/ TransportRead
    \/ SupplyBuffer
    \/ CallTransform
    \/ CallSplitter
    \/ CallDecodeSunSpecCommonBlock

Spec == Init /\ [][Next]_vars

----------------------------------------------------------------------------
(* Properties *)

\* the resolved offsets of an argument list, their least and their greatest
OffsetsOf(iecs) == {MeasurementMapping[iecs[i]] : i \in DOMAIN iecs}

LeastOffset(iecs) == CHOOSE m \in OffsetsOf(iecs) : \A o \in OffsetsOf(iecs) : m <= o

GreatestOffset(iecs) == CHOOSE m \in OffsetsOf(iecs) : \A o \in OffsetsOf(iecs) : m >= o

\* the byte of b at 0-based index i
ByteAt(i) == b.arr[i + 1]

Word16At(i) == 256 * ByteAt(i) + ByteAt(i + 1)

Word32At(i) == 65536 * Word16At(i) + Word16At(i + 2)

\* two's complement value of a 16-bit word
Signed16(u) == u - 65536 * (u \div 32768)

\* the last two bytes of b as a signed 16-bit integer
BlockExponent == Signed16(Word16At(b.len - 2))

\* a block operation was built, read and split
BlockSplit ==
    /\ pc = "done"
    /\ builder \in {"scaleSnip16", "scaleSnip32"}
    /\ out.kind = "split"

\* the reading a splitter of the given decoder takes at byte index i
ReadingAt(fn, i) ==
    CASE fn = "RTUInt16ToFloat64"         -> F(Signed16(Word16At(i)), 0)
      [] fn = "RTUUint16ToFloat64WithNaN" -> F(Word16At(i), 0)
      [] fn = "RTUUint32ToFloat64"        -> F(Word32At(i), -3)

\* C1: every SplitResult of a block splitter has value raw * 10^e, with e
\* the last two bytes of the block as a signed 16-bit integer and raw the
\* reading at byte index dataSize * (offset - min); offsets {10, 12},
\* unsigned 16-bit, exponent -1 give raw(10) * 0.1 then raw(12) * 0.1.
\* (The product is the float64 product: 10^e is 0 below 1e-323 and +Inf
\* above 1e308.)
C1_ScaledValues ==
    BlockSplit =>
        /\ \A i \in DOMAIN out.res :
              LET r  == out.res[i]
                  at == op.Splitter.dataSize
                          * (MeasurementMapping[r.IEC61850] - LeastOffset(op.Splitter.iecs))
              IN  r.Value = FMul(ReadingAt(op.Splitter.valFunc.fn, at), Pow10(BlockExponent))
        /\ ( /\ MeasurementMapping["Power"] = 10
             /\ MeasurementMapping["Export"] = 12
             /\ op.Splitter.iecs = <<"Power", "Export">>
             /\ op.Splitter.valFunc.fn = "RTUUint16ToFloat64WithNaN"
             /\ Word16At(0) # 65535 /\ Word16At(4) # 65535
             /\ BlockExponent = -1 )
           => /\ Len(out.res) = 2
              /\ out.res[1].Value = F(Word16At(0), -1)
              /\ out.res[2].Value = F(Word16At(4), -1)

\* offsets {10, 12}, unsigned 16-bit, exponent bytes 0xFFFF: 0.2 and 0.2
C1_Witness ==
    /\ BlockSplit
    /\ MeasurementMapping["Power"] = 10
    /\ MeasurementMapping["Export"] = 12
    /\ op.Splitter.iecs = <<"Power", "Export">>
    /\ op.Splitter.valFunc.fn = "RTUUint16ToFloat64WithNaN"
    /\ Word16At(b.len - 2) = 65535
    /\ Len(out.res) = 2
    /\ out.res[1].Value = F(2, -1)
    /\ out.res[2].Value = F(2, -1)

\* the measurements of an argument list whose 16-bit reading is not 0xFFFF
RECURSIVE Supported(_, _)
Supported(iecs, least) ==
    IF iecs = <<>> THEN <<>>
    ELSE LET rest == Supported(Tail(iecs), least)
         IN  IF Word16At(2 * (MeasurementMapping[Head(iecs)] - least)) = 65535
             THEN rest
             ELSE <<Head(iecs)>> \o rest

Uint16BlockSplit ==
    BlockSplit /\ op.Splitter.valFunc.fn = "RTUUint16ToFloat64WithNaN"

\* C2: the unsigned 16-bit splitter emits the caller's argument list, in
\* order, less exactly the measurements whose reading is 0xFFFF.
C2_SentinelFiltered ==
    Uint16BlockSplit =>
        /\ [i \in DOMAIN out.res |-> out.res[i].IEC61850]
              = Supported(op.Splitter.iecs, LeastOffset(op.Splitter.iecs))
        /\ Len(out.res) <= Len(op.Splitter.iecs)

\* of two measurements the first reads 0xFFFF and is dropped, the second is kept
C2_Witness ==
    /\ Uint16BlockSplit
    /\ op.Splitter.iecs = <<"Export", "Power">>
    /\ MeasurementMapping["Export"] = 12
    /\ MeasurementMapping["Power"] = 10
    /\ Word16At(4) = 65535
    /\ Word16At(0) = 2
    /\ Len(out.res) = 1
    /\ out.res[1].IEC61850 = "Power"

\* C3: a block operation reads (max - min) + 2 registers when built by
\* scaleSnip16 and ((max - min) + 1) * 2 + 1 when built by scaleSnip32, from
\* address 40000 + min - 1, for any order of the arguments.
C3_BlockSpan ==
    builder \in {"scaleSnip16", "scaleSnip32"} =>
        LET lo == LeastOffset(op.Splitter.iecs)
            hi == GreatestOffset(op.Splitter.iecs)
        IN  /\ op.OpCode = 40000 + lo - 1
            /\ builder = "scaleSnip16" => op.ReadLen = (hi - lo) + 2
            /\ builder = "scaleSnip32" => op.ReadLen = ((hi - lo) + 1) * 2 + 1

\* a 32-bit block whose arguments come greatest offset first
C3_Witness ==
    /\ pc = "built"
    /\ builder = "scaleSnip32"
    /\ op.Splitter.iecs = <<"Export", "Power">>
    /\ MeasurementMapping["Export"] = 12
    /\ MeasurementMapping["Power"] = 10
    /\ op.ReadLen = 7
    /\ op.OpCode = 40009

\* DecodeSunSpecCommonBlock was called on b
CommonDecoded ==
    /\ pc = "done"
    /\ builder \in {"", "GetSunSpecCommonBlock"}

ValidSignature ==
    /\ ByteAt(0) = 83 /\ ByteAt(1) = 117 /\ ByteAt(2) = 110 /\ ByteAt(3) = 83

\* C4: DecodeSunSpecCommonBlock has exactly three outcomes, fixed by the
\* buffer alone: shorter than 53 + 32 bytes, buffer-too-short; otherwise an
\* invalid signature, invalid-signature; otherwise a descriptor and no
\* error.  No other failure or fault occurs, and both failures return the
\* zero descriptor.
C4_ThreeOutcomes ==
    CommonDecoded =>
        IF b.len < 53 + 32
        THEN /\ out.kind = "error"
             /\ out.err = "Could not read SunSpec device descriptor"
             /\ out.descr = NoDescriptor
        ELSE IF ~ ValidSignature
        THEN /\ out.kind = "error"
             /\ out.err = "Invalid SunSpec device signature"
             /\ out.descr = NoDescriptor
        ELSE out.kind = "descr"

\* the whole field: the 2 * len bytes from byte offset 2 * (reg - 1)
WholeField(reg, len) ==
    [i \in 1 .. 2 * len |-> ByteAt(2 * (reg - 1) + i - 1)]

\* str without its trailing spaces and null bytes
Stripped(str) ==
    LET keep == {n \in 0 .. Len(str) :
                    \A i \in n + 1 .. Len(str) : str[i] \in {32, 0}}
        n    == CHOOSE k \in keep : \A j \in keep : k <= j
    IN  SubSeq(str, 1, n)

\* C5: each decoded string is the whole field (manufacturer 5/16, model
\* 21/16, version 45/8, serial 53/16) less its trailing spaces and null
\* bytes, also when the field's last byte is no padding (for a buffer that
\* holds the four fields).
C5_RoundTrip ==
    (CommonDecoded /\ out.kind = "descr" /\ b.len >= 2 * (53 + 16 - 1)) =>
        /\ out.descr.Manufacturer = Stripped(WholeField(5, 16))
        /\ out.descr.Model = Stripped(WholeField(21, 16))
        /\ out.descr.Version = Stripped(WholeField(45, 8))
        /\ out.descr.Serial = Stripped(WholeField(53, 16))

Populated(f) == f.fn # "nil"

\* C6: every operation the core builds has exactly one of Transform and
\* Splitter populated.
C6_ExactlyOne ==
    builder # "" => (Populated(op.Transform) /\ ~ Populated(op.Splitter))
                    \/ (~ Populated(op.Transform) /\ Populated(op.Splitter))

\* C6, amended: snip16uint, snip16int and snip32 populate Transform and no
\* Splitter, scaleSnip16 and scaleSnip32 populate Splitter and no
\* Transform, and GetSunSpecCommonBlock populates neither.
C6_ExactlyOneButCommonBlock ==
    /\ builder \in {"snip16uint", "snip16int", "snip32"}
          => Populated(op.Transform) /\ ~ Populated(op.Splitter)
    /\ builder \in {"scaleSnip16", "scaleSnip32"}
          => ~ Populated(op.Transform) /\ Populated(op.Splitter)
    /\ builder = "GetSunSpecCommonBlock"
          => ~ Populated(op.Transform) /\ ~ Populated(op.Splitter)

\* the common block operation was built, and it carries no decoder
C6_Witness ==
    /\ pc = "built"
    /\ builder = "GetSunSpecCommonBlock"
    /\ op.FuncCode = ReadHoldingReg
    /\ op.ReadLen = 53
    /\ ~ Populated(op.Transform)
    /\ ~ Populated(op.Splitter)

\* C7: the 2 * ReadLen bytes read for the operation of
\* GetSunSpecCommonBlock pass the length check of DecodeSunSpecCommonBlock
\* and, with a valid signature, decode to the four fields without a fault:
\* the read covers every byte the decoder slices, to the end of the serial
\* field.
C7_ReadThenDecode ==
    (pc = "done" /\ builder = "GetSunSpecCommonBlock") =>
        /\ b.len = 2 * op.ReadLen
        /\ b.len >= 53 + 32
        /\ out.kind # "panic"
        /\ ValidSignature =>
              /\ out.kind = "descr"
              /\ 2 * (53 + 16 - 1) - 1 <= b.len

\* C8: every SplitResult's value is decoded from the bytes of the register
\* at the address it reports: byte index 2 * (A - S) of the block, S the
\* address the block was read from.
C8_ValueAtReportedAddress ==
    BlockSplit =>
        \A i \in DOMAIN out.res :
            LET r == out.res[i]
            IN  r.Value = FMul(ReadingAt(op.Splitter.valFunc.fn, 2 * (r.OpCode - op.OpCode)),
                               Pow10(BlockExponent))

\* C9: given the 2 * ReadLen bytes of its operation, the splitter reads
\* every measurement inside the block and short of the trailing two
\* exponent bytes, and does not fault.
C9_SpansInsideBlock ==
    (pc \in {"read", "done"} /\ builder \in {"scaleSnip16", "scaleSnip32"}) =>
        /\ b.len = 2 * op.ReadLen
        /\ op.Splitter.dataSize = IF builder = "scaleSnip16" THEN 2 ELSE 4
        /\ \A i \in DOMAIN op.Splitter.iecs :
              LET at == op.Splitter.dataSize
                          * (MeasurementMapping[op.Splitter.iecs[i]]
                               - LeastOffset(op.Splitter.iecs))
              IN  /\ 0 <= at
                  /\ at + op.Splitter.dataSize <= b.len - 2
        /\ pc = "done" => out.kind = "split"

\* a 32-bit block of two measurements two registers apart was split
C9_Witness ==
    /\ BlockSplit
    /\ builder = "scaleSnip32"
    /\ op.Splitter.iecs = <<"Power", "Export">>
    /\ MeasurementMapping["Export"] - MeasurementMapping["Power"] = 2
    /\ b.len = 14
    /\ Len(out.res) = 2

====
